---- MODULE Spec2Model ----
(***************************************************************************)
(* Model of conciliacao_conexa_banco_sem_saldo.py: the normalisers         *)
(* ler_excel_banco / ler_excel_conexa, the matcher conciliar_linha_a_linha *)
(* and the pipeline of main.                                               *)
(*                                                                         *)
(* Representation.                                                         *)
(*   text      a sequence of characters, <<"V","a","l","o","r">>; a        *)
(*             character TLA+ cannot spell is named by its code point      *)
(*   number    a decimal <<m, e>> standing for m / 10^e, normalised so     *)
(*             that m has no trailing zero when e > 0                      *)
(*   missing   NaN, NaT and pd.NA are the empty tuple <<>>                 *)
(*   date      <<d>> for a parsed date, NaT otherwise                      *)
(*   index     the RangeIndex labels of a DataFrame are 0, 1, ..., n-1;    *)
(*             row with label j is element j+1 of the sequence             *)
(***************************************************************************)
EXTENDS Integers, Sequences, FiniteSets, TLC

VARIABLES
    arq_banco,        \* the bank spreadsheet as pd.read_excel returns it
    arq_erp,          \* the Conexa spreadsheet as pd.read_excel returns it
    banco,            \* normalised bank frame (ler_excel_banco's df_out)
    erp,              \* normalised ERP frame (ler_excel_conexa's df_out)
    index_por_valor,  \* amount -> queue of unclaimed ERP labels
    linhas,           \* output rows built so far
    fontes,           \* idx_erp popped for each output row, NA when none
    erro,             \* the ValueError raised, NA when none
    saida,            \* the output file, NA while it does not exist
    celula,           \* text of one Valor cell, after astype(str)
    valor,            \* the number pd.to_numeric made of celula
    pc                \* position of the run

vars == <<arq_banco, arq_erp, banco, erp, index_por_valor, linhas, fontes,
          erro, saida, celula, valor, pc>>

----------------------------------------------------------------------------
(* Bounds *)

MaxBanco == 3
MaxErp == 2
MaxCols == 3
MaxLinhasArq == 1
MaxCel == 3

----------------------------------------------------------------------------
(* Missing values and decimals *)

NaN == <<>>
NaT == <<>>
NA == <<>>

isna(v) == v = <<>>

Dec(m, e) == <<m, e>>

Num(n) == Dec(n, 0)

Positivo(v) == v[1] > 0

\* alvo = abs(v)
abs_truncado(v) ==
    IF v[2] = 0 THEN Dec(IF v[1] < 0 THEN -v[1] ELSE v[1], 0)
    ELSE Dec((IF v[1] < 0 THEN -v[1] ELSE v[1]) \div 10, v[2] - 1)

abs(v) == Dec(IF v[1] < 0 THEN -v[1] ELSE v[1], v[2])

SeqsAte(S, n) == UNION {[1..k -> S] : k \in 0..n}

----------------------------------------------------------------------------
(* conciliar_linha_a_linha *)

\* erp[erp["Valor"] > 0]: the labels kept, in frame order. NaN > 0 is False.
ErpPos_comZero(e) ==
    {j \in 0..(Len(e) - 1) :
        ~isna(e[j + 1].Valor) /\ (Positivo(e[j + 1].Valor) \/ e[j + 1].Valor[1] = 0)}

ErpPos(e) ==
    {j \in 0..(Len(e) - 1) : ~isna(e[j + 1].Valor) /\ Positivo(e[j + 1].Valor)}

\* index_por_valor[row["Valor"]].append(idx) on a defaultdict(list)
AnexarIdx(ix, a, idx) ==
    IF a \in DOMAIN ix
    THEN [ix EXCEPT ![a] = Append(@, idx)]
    ELSE [k \in DOMAIN ix \cup {a} |-> IF k = a THEN <<idx>> ELSE ix[k]]

\* for idx, row in erp_pos.iterrows(): labels j, j+1, ... in frame order
RECURSIVE Indexar(_, _, _)
Indexar(e, j, ix) ==
    IF j >= Len(e) THEN ix
    ELSE IF j \in ErpPos(e)
         THEN Indexar(e, j + 1, AnexarIdx(ix, e[j + 1].Valor, j))
         ELSE Indexar(e, j + 1, ix)

DictVazio == [k \in {} |-> <<>>]

\* the dict literal every iteration starts from
NovaLinha(b) ==
    [Data_Banco |-> b.Data,
     Valor_Banco |-> b.Valor,
     Tipo_Banco |-> b.Tipo,
     Protocolo_Banco |-> b.Protocolo,
     Data_ERP_Quitacao |-> NaT,
     Valor_ERP |-> NA,
     Fornecedor_ERP |-> "",
     Status |-> ""]

\* if pd.isna(v)
EhInvalido_ouZero(v) == isna(v) \/ v[1] = 0

EhInvalido(v) == isna(v)

\* elif v > 0
EhEntrada_sinalTrocado(v) == v[1] < 0

EhEntrada(v) == v[1] > 0

\* index_por_valor.get(alvo, [])
Candidatos(ix, alvo) == IF alvo \in DOMAIN ix THEN ix[alvo] ELSE <<>>

\* candidatos.pop(0): the label popped and the list left in the dict
Pop0_semConsumir(cands) == [idx |-> Head(cands), resto |-> cands]

Pop0_ultimo(cands) ==
    [idx |-> cands[Len(cands)], resto |-> SubSeq(cands, 1, Len(cands) - 1)]

Pop0(cands) == [idx |-> Head(cands), resto |-> Tail(cands)]

\* linha[...] = e[...] for e = erp.loc[idx_erp]
Preencher(linha, e) ==
    [linha EXCEPT !.Data_ERP_Quitacao = e.Quitacao,
                  !.Valor_ERP = e.Valor,
                  !.Fornecedor_ERP = e.Fornecedor,
                  !.Status = "Conciliado"]

\* linhas.append(linha)
AnexarLinha_naFrente(ls, linha) == <<linha>> \o ls

AnexarLinha(ls, linha) == Append(ls, linha)

\* One iteration of the loop over banco.iterrows(): the row produced, the
\* index left behind and the ERP label consumed.
Passo(ix, e, b) ==
    LET linha == NovaLinha(b)
        v == b.Valor
    IN  IF EhInvalido(v)
        THEN [linha |-> [linha EXCEPT !.Status = "Zero ou inválido"],
              ix |-> ix, fonte |-> NA]
        ELSE IF EhEntrada(v)
        THEN [linha |-> [linha EXCEPT !.Status = "Entrada no Banco"],
              ix |-> ix, fonte |-> NA]
        ELSE LET alvo == abs(v)
                 candidatos == Candidatos(ix, alvo)
             IN  IF candidatos # <<>>
                 THEN LET p == Pop0(candidatos)
                      IN  [linha |-> Preencher(linha, e[p.idx + 1]),
                           ix |-> [ix EXCEPT ![alvo] = p.resto],
                           fonte |-> <<p.idx>>]
                 ELSE [linha |-> [linha EXCEPT !.Status = "Não conciliado"],
                       ix |-> ix, fonte |-> NA]

\* the whole loop, from bank row i (1-based) on
RECURSIVE Iterar(_, _, _, _)
Iterar(est, e, bs, i) ==
    IF i > Len(bs) THEN est
    ELSE LET r == Passo(est.ix, e, bs[i])
         IN  Iterar([ix |-> r.ix,
                     linhas |-> AnexarLinha(est.linhas, r.linha),
                     fontes |-> Append(est.fontes, r.fonte)], e, bs, i + 1)

Conciliar(bs, e) ==
    Iterar([ix |-> Indexar(e, 0, DictVazio), linhas |-> <<>>, fontes |-> <<>>],
           e, bs, 1)

----------------------------------------------------------------------------
(* The frames handed to conciliar_linha_a_linha.  Row i of the bank frame  *)
(* carries a date, type and protocol of its own, row j of the ERP frame a  *)
(* settlement date and supplier of its own, so that rows are told apart.   *)

ValoresBanco == {Dec(-15, 1), Num(-1), Num(0), Num(1), NaN}

ValoresErp == {Num(-1), Num(0), Num(1), Dec(15, 1), NaN}

BancoDe(vs) ==
    [i \in 1..Len(vs) |->
        [Tipo |-> "T" \o ToString(i), Protocolo |-> "P" \o ToString(i),
         Data |-> <<i>>, Valor |-> vs[i]]]

ErpDe(vs) ==
    [i \in 1..Len(vs) |->
        [Quitacao |-> <<i>>, Valor |-> vs[i], Fornecedor |-> "F" \o ToString(i - 1)]]

ArqVazio == [columns |-> <<>>, celulas |-> <<>>]

Init ==
    /\ banco \in {BancoDe(vs) : vs \in SeqsAte(ValoresBanco, MaxBanco)}
    /\ erp \in {ErpDe(vs) : vs \in SeqsAte(ValoresErp, MaxErp)}
    /\ arq_banco = ArqVazio
    /\ arq_erp = ArqVazio
    /\ index_por_valor = DictVazio
    /\ linhas = <<>>
    /\ fontes = <<>>
    /\ erro = NA
    /\ saida = NA
    /\ celula = <<>>
    /\ valor = NaN
    /\ pc = "indexar"

Fora == <<arq_banco, arq_erp, banco, erp, erro, saida, celula, valor>>

\* lines 66-69: build the index of the positive ERP rows
IndexarErp ==
    /\ pc = "indexar"
    /\ index_por_valor' = Indexar(erp, 0, DictVazio)
    /\ pc' = "iterar"
    /\ UNCHANGED <<linhas, fontes>>
    /\ UNCHANGED Fora

\* lines 72-102: one iteration of the loop, ending in the given status
ProcessarLinha(status) ==
    /\ pc = "iterar"
    /\ Len(linhas) < Len(banco)
    /\ LET r == Passo(index_por_valor, erp, banco[Len(linhas) + 1])
       IN  /\ r.linha.Status = status
           /\ linhas' = AnexarLinha(linhas, r.linha)
           /\ fontes' = Append(fontes, r.fonte)
           /\ index_por_valor' = r.ix
    /\ UNCHANGED pc
    /\ UNCHANGED Fora

LinhaInvalida == ProcessarLinha("Zero ou inválido")

LinhaEntrada == ProcessarLinha("Entrada no Banco")

LinhaConciliada == ProcessarLinha("Conciliado")

LinhaNaoConciliada == ProcessarLinha("Não conciliado")

\* line 104
Retornar ==
    /\ pc = "iterar"
    /\ Len(linhas) = Len(banco)
    /\ pc' = "fim"
    /\ UNCHANGED <<index_por_valor, linhas, fontes>>
    /\ UNCHANGED Fora

Next ==
    \/ IndexarErp
    \/ LinhaInvalida
    \/ LinhaEntrada
    \/ LinhaConciliada
    \/ LinhaNaoConciliada
    \/ Retornar

Spec == Init /\ [][Next]_vars

----------------------------------------------------------------------------
(* Amount parsing: lines 28-31 and 50-53.  The cell texts modelled are     *)
(* made of digits, ".", "," and "-"; exponents, "+", blanks and the words   *)
(* pd.to_numeric reads as nan or inf are left out.                         *)

Digitos == {"0", "1", "2", "3", "4", "5", "6", "7", "8", "9"}

DigitoVal(c) == CHOOSE d \in 0..9 : ToString(d) = c

\* .str.replace(",", ".", regex=False)
replace_virgula(s) == [k \in 1..Len(s) |-> IF s[k] = "," THEN "." ELSE s[k]]

\* the digits of s read as one integer
RECURSIVE Inteiro(_)
Inteiro(s) ==
    IF s = <<>> THEN 0
    ELSE 10 * Inteiro(SubSeq(s, 1, Len(s) - 1)) + DigitoVal(s[Len(s)])

\* m / 10^e without trailing zeros in the fraction
RECURSIVE Normal(_, _)
Normal(m, e) ==
    IF e > 0 /\ m % 10 = 0 THEN Normal(m \div 10, e - 1) ELSE Dec(m, e)

\* pd.to_numeric(..., errors="coerce") on one text: an optional "-", digits
\* with at most one ".", at least one digit; anything else is NaN.
to_numeric(s) ==
    LET neg == s # <<>> /\ s[1] = "-"
        r == IF neg THEN Tail(s) ELSE s
        pontos == {k \in 1..Len(r) : r[k] = "."}
        numerico ==
            /\ \A k \in 1..Len(r) : r[k] \in Digitos \cup {"."}
            /\ Cardinality(pontos) <= 1
            /\ \E k \in 1..Len(r) : r[k] \in Digitos
        p == IF pontos = {} THEN Len(r) + 1 ELSE CHOOSE k \in pontos : TRUE
        m == Inteiro(SubSeq(r, 1, p - 1) \o SubSeq(r, p + 1, Len(r)))
        e == IF pontos = {} THEN 0 ELSE Len(r) - p
    IN  IF ~numerico THEN NaN
        ELSE Normal(IF neg THEN -m ELSE m, e)

\* df_out["Valor"] for one cell
ParseValor(s) == to_numeric(replace_virgula(s))

Caracteres == {"0", "1", ".", ",", "-"}

Txt_1_234_56 == <<"1", ".", "2", "3", "4", ",", "5", "6">>

Txt_1234_56 == <<"1", "2", "3", "4", ",", "5", "6">>

Amostras ==
    {Txt_1_234_56, Txt_1234_56,
     <<"1", "2", "3", "4", ".", "5", "6">>,
     <<"-", "1", "0", "0", ",", "5", "0">>,
     <<"1", ",", "2", "3", "4", ".", "5", "6">>}

InitParse ==
    /\ celula \in SeqsAte(Caracteres, MaxCel) \cup Amostras
    /\ valor = NaN
    /\ pc = "celula"
    /\ banco = <<>>
    /\ erp = <<>>
    /\ arq_banco = ArqVazio
    /\ arq_erp = ArqVazio
    /\ index_por_valor = DictVazio
    /\ linhas = <<>>
    /\ fontes = <<>>
    /\ erro = NA
    /\ saida = NA

\* lines 28-31 applied to the cell
ConverterValor ==
    /\ pc = "celula"
    /\ valor' = ParseValor(celula)
    /\ pc' = "numero"
    /\ UNCHANGED <<arq_banco, arq_erp, banco, erp, index_por_valor, linhas,
                   fontes, erro, saida, celula>>

NextParse == ConverterValor

SpecParse == InitParse /\ [][NextParse]_vars

----------------------------------------------------------------------------
(* ler_excel_banco, ler_excel_conexa and main.  A spreadsheet is the       *)
(* sequence of its column names and the texts of the cells of the column   *)
(* cols["Valor"] resolves to, one per row; row i holds date i.             *)

\* The characters str.strip() removes: every character str.isspace() holds
\* of.  A character TLA+ cannot spell is written by its code point.
Brancos ==
    {" ", "\t", "\n", "\r", "\f", "U+000B", "U+001C", "U+001D", "U+001E",
     "U+001F", "U+0085", "U+00A0", "U+1680", "U+2000", "U+2001", "U+2002",
     "U+2003", "U+2004", "U+2005", "U+2006", "U+2007", "U+2008", "U+2009",
     "U+200A", "U+2028", "U+2029", "U+202F", "U+205F", "U+3000"}

\* str.strip(): whitespace off both ends
RECURSIVE strip(_)
strip(s) ==
    IF s = <<>> THEN s
    ELSE IF Head(s) \in Brancos THEN strip(Tail(s))
    ELSE IF s[Len(s)] \in Brancos THEN strip(SubSeq(s, 1, Len(s) - 1))
    ELSE s

\* cols = {c.strip(): c for c in df.columns}; a later column wins
Cols(columns) ==
    [n \in {strip(columns[k]) : k \in 1..Len(columns)} |->
        LET u == CHOOSE k \in 1..Len(columns) :
                    /\ strip(columns[k]) = n
                    /\ \A x \in 1..Len(columns) : strip(columns[x]) = n => x <= k
        IN  columns[u]]

c_Data == <<"D", "a", "t", "a">>

c_Valor == <<"V", "a", "l", "o", "r">>

c_Tipo == <<"T", "i", "p", "o">>

c_Protocolo == <<"P", "r", "o", "t", "o", "c", "o", "l", "o">>

c_Quitacao == <<"Q", "u", "i", "t", "a", "ç", "ã", "o">>

c_Fornecedor == <<"F", "o", "r", "n", "e", "c", "e", "d", "o", "r">>

ObrigBanco == <<c_Data, c_Valor>>

ObrigConexa == <<c_Quitacao, c_Valor>>

\* faltando = [c for c in obrig if c not in cols]
Faltando_soPrimeira(obrig, columns) ==
    LET f == SelectSeq(obrig, LAMBDA c : c \notin DOMAIN Cols(columns))
    IN  IF f = <<>> THEN f ELSE <<Head(f)>>

Faltando(obrig, columns) ==
    SelectSeq(obrig, LAMBDA c : c \notin DOMAIN Cols(columns))

\* the ValueError raised at lines 19-22 and 43-46
ErroColunas(arquivo, obrig, columns) ==
    [arquivo |-> arquivo,
     faltando |-> Faltando(obrig, columns),
     encontradas |-> columns]

\* lines 24-32.  df_out starts with no index: a "" assigned to it while it
\* has none makes a column without rows, which the first column taken from
\* the sheet then fills with NaN.  So Tipo is NaN when the sheet has no Tipo
\* column, and Protocolo is "" only when it is absent and Tipo is present.
NormalizarBanco(arq) ==
    LET cols == Cols(arq.columns)
    IN  [i \in 1..Len(arq.celulas) |->
            [Tipo |-> IF c_Tipo \in DOMAIN cols THEN "T" \o ToString(i) ELSE NaN,
             Protocolo |-> IF c_Protocolo \in DOMAIN cols THEN "P" \o ToString(i)
                           ELSE IF c_Tipo \in DOMAIN cols THEN "" ELSE NaN,
             Data |-> <<i>>,
             Valor |-> ParseValor(arq.celulas[i])]]

\* lines 48-55.  Fornecedor is assigned last, when df_out has its rows, so
\* the "" is spread over them.
NormalizarConexa(arq) ==
    LET cols == Cols(arq.columns)
    IN  [i \in 1..Len(arq.celulas) |->
            [Quitacao |-> <<i>>,
             Valor |-> ParseValor(arq.celulas[i]),
             Fornecedor |-> IF c_Fornecedor \in DOMAIN cols
                            THEN "F" \o ToString(i - 1) ELSE ""]]

NomesBanco ==
    {c_Data, c_Valor, <<"\t">> \o c_Valor \o <<" ">>, c_Tipo, c_Protocolo}

NomesConexa ==
    {c_Quitacao, c_Quitacao \o <<"U+00A0">>, c_Valor, c_Fornecedor}

CelulasBanco == {<<"-", "1", ",", "5">>, <<"2">>}

CelulasConexa == {<<"1", ".", "5">>, <<"1", ".", "5", ",", "0">>}

\* column headers as read_excel delivers them: no two alike
Cabecalhos(nomes) ==
    {cs \in SeqsAte(nomes, MaxCols) :
        \A x, y \in 1..Len(cs) : x # y => cs[x] # cs[y]}

Arquivos(nomes, cels) ==
    {[columns |-> cs, celulas |-> vs] :
        cs \in Cabecalhos(nomes), vs \in SeqsAte(cels, MaxLinhasArq)}

InitMain ==
    /\ arq_banco \in Arquivos(NomesBanco, CelulasBanco)
    /\ arq_erp \in Arquivos(NomesConexa, CelulasConexa)
    /\ banco = <<>>
    /\ erp = <<>>
    /\ index_por_valor = DictVazio
    /\ linhas = <<>>
    /\ fontes = <<>>
    /\ erro = NA
    /\ saida = NA
    /\ celula = <<>>
    /\ valor = NaN
    /\ pc = "main"

\* line 145, ler_excel_banco returning
LerExcelBanco ==
    /\ pc = "main"
    /\ Faltando(ObrigBanco, arq_banco.columns) = <<>>
    /\ banco' = NormalizarBanco(arq_banco)
    /\ pc' = "banco_lido"
    /\ UNCHANGED <<arq_banco, arq_erp, erp, index_por_valor, linhas, fontes,
                   erro, saida, celula, valor>>

\* line 145, ler_excel_banco raising
LerExcelBancoErro ==
    /\ pc = "main"
    /\ Faltando(ObrigBanco, arq_banco.columns) # <<>>
    /\ erro' = <<ErroColunas("Banco", ObrigBanco, arq_banco.columns)>>
    /\ pc' = "abortado"
    /\ UNCHANGED <<arq_banco, arq_erp, banco, erp, index_por_valor, linhas,
                   fontes, saida, celula, valor>>

\* line 146, ler_excel_conexa returning
LerExcelConexa ==
    /\ pc = "banco_lido"
    /\ Faltando(ObrigConexa, arq_erp.columns) = <<>>
    /\ erp' = NormalizarConexa(arq_erp)
    /\ pc' = "erp_lido"
    /\ UNCHANGED <<arq_banco, arq_erp, banco, index_por_valor, linhas, fontes,
                   erro, saida, celula, valor>>

\* line 146, ler_excel_conexa raising
LerExcelConexaErro ==
    /\ pc = "banco_lido"
    /\ Faltando(ObrigConexa, arq_erp.columns) # <<>>
    /\ erro' = <<ErroColunas("Conexa", ObrigConexa, arq_erp.columns)>>
    /\ pc' = "abortado"
    /\ UNCHANGED <<arq_banco, arq_erp, banco, erp, index_por_valor, linhas,
                   fontes, saida, celula, valor>>

\* line 148
ConciliarTudo ==
    /\ pc = "erp_lido"
    /\ LET r == Conciliar(banco, erp)
       IN  /\ linhas' = r.linhas
           /\ fontes' = r.fontes
           /\ index_por_valor' = r.ix
    /\ pc' = "conciliado"
    /\ UNCHANGED <<arq_banco, arq_erp, banco, erp, erro, saida, celula, valor>>

\* lines 150-152: the sheet "Conciliacao" is written
EscreverSaida_antesDeLer ==
    /\ pc = "main"
    /\ saida = NA
    /\ saida' = <<[planilha |-> "Conciliacao", linhas |-> linhas, cores |-> FALSE]>>
    /\ UNCHANGED <<arq_banco, arq_erp, banco, erp, index_por_valor, linhas,
                   fontes, erro, celula, valor, pc>>

EscreverSaida ==
    /\ pc = "conciliado"
    /\ saida' = <<[planilha |-> "Conciliacao", linhas |-> linhas, cores |-> FALSE]>>
    /\ pc' = "escrito"
    /\ UNCHANGED <<arq_banco, arq_erp, banco, erp, index_por_valor, linhas,
                   fontes, erro, celula, valor>>

\* line 154: aplicar_cores rewrites the file in place
AplicarCores ==
    /\ pc = "escrito"
    /\ saida' = <<[saida[1] EXCEPT !.cores = TRUE]>>
    /\ pc' = "concluido"
    /\ UNCHANGED <<arq_banco, arq_erp, banco, erp, index_por_valor, linhas,
                   fontes, erro, celula, valor>>

NextMain ==
    \/ LerExcelBanco
    \/ LerExcelBancoErro
    \/ LerExcelConexa
    \/ LerExcelConexaErro
    \/ ConciliarTudo
    \/ EscreverSaida
    \/ AplicarCores

SpecMain == InitMain /\ [][NextMain]_vars

----------------------------------------------------------------------------
(* Properties of conciliar_linha_a_linha, checked under Spec *)

SemMatch(l) ==
    /\ l.Data_ERP_Quitacao = NaT
    /\ l.Valor_ERP = NA
    /\ l.Fornecedor_ERP = ""

Modulo(v) == IF v[1] < 0 THEN <<-v[1], v[2]>> ELSE v

\* ERP labels whose amount is exactly a, and the k-th of them in frame order
LabelsCom(a) == {j \in 0..(Len(erp) - 1) : erp[j + 1].Valor = a}

Kesimo(S, k) == CHOOSE j \in S : Cardinality({x \in S : x < j}) = k - 1

\* C1: the result has one row per bank record, in bank order: never more
\* rows than bank records, exactly Len(banco) rows on return, and row i
\* carries the date, amount, type and protocol of bank record i.
C1_UmaLinhaPorRegistro ==
    /\ Len(linhas) <= Len(banco)
    /\ pc = "fim" => Len(linhas) = Len(banco)
    /\ \A i \in 1..Len(linhas) :
          /\ linhas[i].Data_Banco = banco[i].Data
          /\ linhas[i].Valor_Banco = banco[i].Valor
          /\ linhas[i].Tipo_Banco = banco[i].Tipo
          /\ linhas[i].Protocolo_Banco = banco[i].Protocolo

C1_Witness ==
    /\ pc = "fim"
    /\ Len(linhas) = 3
    /\ isna(banco[1].Valor)
    /\ banco[2].Valor = Num(1)
    /\ banco[3].Valor = Num(-1)
    /\ Len(erp) = 0

\* C2: no ERP record is the match source of two output rows: the labels
\* consumed are pairwise distinct, and so are the ERP records the matched
\* rows show.
C2_SemDuploMatch ==
    \A i, k \in 1..Len(linhas) :
        (i # k /\ linhas[i].Status = "Conciliado" /\ linhas[k].Status = "Conciliado")
        => /\ fontes[i] # NA
           /\ fontes[i] # fontes[k]
           /\ linhas[i].Fornecedor_ERP # linhas[k].Fornecedor_ERP

C2_Witness ==
    /\ Len(linhas) = 3
    /\ \A i \in 1..3 : banco[i].Valor = Num(-1)
    /\ Len(erp) = 2
    /\ \A j \in 1..2 : erp[j].Valor = Num(1)
    /\ linhas[1].Status = "Conciliado"
    /\ linhas[2].Status = "Conciliado"

\* C3: the k-th bank record with amount -a (a > 0) is matched to the k-th
\* ERP record with amount a and is Conciliado; when fewer than k ERP records
\* have amount a it is Nao conciliado with no match field populated.
C3_FifoEExaustao ==
    \A i \in 1..Len(linhas) :
        (~isna(banco[i].Valor) /\ banco[i].Valor[1] < 0)
        => LET a == Modulo(banco[i].Valor)
               k == Cardinality({x \in 1..i : banco[x].Valor = banco[i].Valor})
               E == LabelsCom(a)
           IN  IF k <= Cardinality(E)
               THEN /\ linhas[i].Status = "Conciliado"
                    /\ fontes[i] = <<Kesimo(E, k)>>
                    /\ linhas[i].Fornecedor_ERP = erp[Kesimo(E, k) + 1].Fornecedor
               ELSE /\ linhas[i].Status = "Não conciliado"
                    /\ fontes[i] = NA
                    /\ SemMatch(linhas[i])

C3_Witness ==
    /\ pc = "fim"
    /\ Len(erp) = 2 /\ erp[1].Valor = Num(1) /\ erp[2].Valor = Num(1)
    /\ Len(banco) = 3 /\ \A i \in 1..3 : banco[i].Valor = Num(-1)
    /\ fontes = << <<0>>, <<1>>, NA >>
    /\ linhas[3].Status = "Não conciliado"

\* C4: a Conciliado row shows an ERP amount equal to the absolute value of
\* its bank amount, and its ERP date, amount and supplier are those of the
\* one ERP record consumed for it.
C4_ValorExato ==
    \A i \in 1..Len(linhas) :
        linhas[i].Status = "Conciliado"
        => /\ linhas[i].Valor_ERP # NA
           /\ ~isna(linhas[i].Valor_Banco)
           /\ linhas[i].Valor_ERP = Modulo(linhas[i].Valor_Banco)
           /\ \E j \in 0..(Len(erp) - 1) :
                 /\ fontes[i] = <<j>>
                 /\ linhas[i].Data_ERP_Quitacao = erp[j + 1].Quitacao
                 /\ linhas[i].Valor_ERP = erp[j + 1].Valor
                 /\ linhas[i].Fornecedor_ERP = erp[j + 1].Fornecedor

C4_Witness ==
    /\ Len(linhas) >= 1
    /\ banco[1].Valor = Dec(-15, 1)
    /\ linhas[1].Status = "Conciliado"
    /\ Len(erp) = 2 /\ erp[1].Valor = Num(1)
    /\ fontes[1] = <<1>>

\* C5: processing a bank record with a positive amount yields a row with
\* status Entrada no Banco and no match field, and leaves the queues of
\* unclaimed ERP records as they were.
C5_EntradaNaoConsome ==
    [][(/\ pc = "iterar"
        /\ Len(linhas) < Len(banco)
        /\ ~isna(banco[Len(linhas) + 1].Valor)
        /\ banco[Len(linhas) + 1].Valor[1] > 0)
       => (/\ index_por_valor' = index_por_valor
           /\ Len(linhas') = Len(linhas) + 1
           /\ linhas'[Len(linhas')].Status = "Entrada no Banco"
           /\ SemMatch(linhas'[Len(linhas')])
           /\ fontes'[Len(linhas')] = NA)]_vars

C5_Witness ==
    /\ Len(linhas) >= 1
    /\ banco[1].Valor = Num(1)
    /\ linhas[1].Status = "Entrada no Banco"
    /\ Num(1) \in DOMAIN index_por_valor
    /\ index_por_valor[Num(1)] = <<0>>

\* C6: a bank record whose amount is missing gets status Zero ou invalido,
\* no match field and no ERP record; a bank amount of 0 does not get status
\* Zero ou invalido.
C6_InvalidoSoQuandoAusente ==
    \A i \in 1..Len(linhas) :
        /\ isna(banco[i].Valor)
           => /\ linhas[i].Status = "Zero ou inválido"
              /\ SemMatch(linhas[i])
              /\ fontes[i] = NA
        /\ banco[i].Valor = Num(0) => linhas[i].Status # "Zero ou inválido"

C6_Witness ==
    /\ Len(linhas) >= 2
    /\ isna(banco[1].Valor)
    /\ banco[2].Valor = Num(0)
    /\ linhas[1].Status = "Zero ou inválido"
    /\ \E j \in 1..Len(erp) : isna(erp[j].Valor)

\* C10: only ERP records with amount > 0 are ever queued or consumed, and a
\* bank amount of exactly 0 ends as Nao conciliado with nothing consumed.
C10_SoPositivosSaoCandidatos ==
    /\ \A a \in DOMAIN index_por_valor :
          \A n \in 1..Len(index_por_valor[a]) :
              LET j == index_por_valor[a][n]
              IN  ~isna(erp[j + 1].Valor) /\ erp[j + 1].Valor[1] > 0
    /\ \A i \in 1..Len(linhas) :
          /\ fontes[i] # NA
             => /\ ~isna(erp[fontes[i][1] + 1].Valor)
                /\ erp[fontes[i][1] + 1].Valor[1] > 0
          /\ linhas[i].Status = "Conciliado"
             => /\ linhas[i].Valor_ERP # NA
                /\ linhas[i].Valor_ERP[1] > 0
          /\ banco[i].Valor = Num(0)
             => /\ linhas[i].Status = "Não conciliado"
                /\ fontes[i] = NA
                /\ SemMatch(linhas[i])

C10_Witness ==
    /\ pc = "fim"
    /\ Len(banco) >= 2
    /\ banco[1].Valor = Num(0)
    /\ banco[2].Valor = Num(-1)
    /\ linhas[1].Status = "Não conciliado"
    /\ linhas[2].Status = "Não conciliado"
    /\ Len(erp) = 2 /\ erp[1].Valor = Num(0) /\ erp[2].Valor = Num(-1)

----------------------------------------------------------------------------
(* Properties of the amount parsing, checked under SpecParse *)

\* C9: a Valor cell written "1.234,56" parses to the number 1234.56, not
\* to the missing sentinel.
C9_MilharComVirgulaDecimal ==
    (pc = "numero" /\ celula = Txt_1_234_56) => valor = Dec(123456, 2)

----------------------------------------------------------------------------
(* Properties of the normalisers and of main, checked under SpecMain *)

\* required names that no column has once its blanks are trimmed
Ausentes(obrig, columns) ==
    {obrig[n] : n \in {x \in 1..Len(obrig) :
        \A k \in 1..Len(columns) : strip(columns[k]) # obrig[x]}}

\* C7: an input lacking a required column (names trimmed) makes its
\* normaliser raise an error that names every missing required column and
\* lists the columns found, with no row of that input normalised; an input
\* with a required column missing is never read successfully.
C7_ColunasObrigatorias ==
    /\ pc = "abortado"
       => /\ erro # NA
          /\ LET er == erro[1]
                 arq == IF er.arquivo = "Banco" THEN arq_banco ELSE arq_erp
                 obrig == IF er.arquivo = "Banco" THEN ObrigBanco ELSE ObrigConexa
             IN  /\ {er.faltando[n] : n \in 1..Len(er.faltando)}
                        = Ausentes(obrig, arq.columns)
                 /\ er.faltando # <<>>
                 /\ er.encontradas = arq.columns
                 /\ er.arquivo = "Banco" => banco = <<>>
                 /\ erp = <<>>
                 /\ linhas = <<>>
    /\ Ausentes(ObrigBanco, arq_banco.columns) # {}
       => pc \in {"main", "abortado"} /\ banco = <<>>
    /\ Ausentes(ObrigConexa, arq_erp.columns) # {}
       => pc \in {"main", "banco_lido", "abortado"} /\ erp = <<>>
    /\ (pc = "main" \/ erro # NA \/ Ausentes(ObrigBanco, arq_banco.columns) # {})
       \/ Len(banco) = Len(arq_banco.celulas)

C7_Witness ==
    /\ pc = "abortado"
    /\ erro[1].arquivo = "Banco"
    /\ erro[1].faltando = <<c_Data, c_Valor>>
    /\ erro[1].encontradas = <<c_Tipo, c_Protocolo>>
    /\ Len(arq_banco.celulas) = 1

\* C8: the output file exists only after both inputs were normalised and
\* the reconciliation completed; a run aborted by a missing column leaves no
\* output file.
C8_SemSaidaParcial ==
    /\ pc = "abortado" => saida = NA
    /\ saida # NA
       => /\ pc \in {"escrito", "concluido"}
          /\ erro = NA
          /\ Len(banco) = Len(arq_banco.celulas)
          /\ Len(erp) = Len(arq_erp.celulas)
          /\ Len(linhas) = Len(banco)
          /\ saida[1].linhas = linhas
    /\ pc = "concluido" => saida # NA /\ saida[1].cores

C8_Witness ==
    /\ pc = "abortado"
    /\ erro[1].arquivo = "Conexa"
    /\ Len(banco) = 1
    /\ banco[1].Valor = Dec(-15, 1)
    /\ saida = NA

====
